---- MODULE Spec2Model ----
(***************************************************************************)
(* Model of the two scripts of the survey reporting pipeline:              *)
(*   - the Metrics Calculator (calculate_metrics: MetricsCalculator, main) *)
(*   - the Page Generator (generate_html_pages, a module-level script).    *)
(* Numbers are exact rationals <<num, den>> (den > 0, lowest terms); the   *)
(* missing value NaN is <<0, 0>>.  A text cell is the 1-tuple <<text>>.    *)
(***************************************************************************)
EXTENDS Integers, Sequences, FiniteSets, TLC

(* ------------------------------ bounds -------------------------------- *)
\* most rows of an input table
MaxRows == 2
\* most required columns an input table lacks
MaxMissing == 1

(* --------------------------- exact numbers ---------------------------- *)
NaN == <<0, 0>>

IsNaN(x) == x[2] = 0

Abs(n) == IF n < 0 THEN 0 - n ELSE n

RECURSIVE GCD(_, _)
GCD(a, b) == IF b = 0 THEN a ELSE GCD(b, a % b)

\* n/d in lowest terms, d >= 0; d = 0 gives NaN (0/0 of an empty mean)
Rat(n, d) ==
    IF d = 0 THEN NaN
    ELSE LET g == GCD(Abs(n), d) IN <<n \div g, d \div g>>

Num(n) == <<n, 1>>

\* x + y over the least common denominator
RAdd(x, y) ==
    IF IsNaN(x) \/ IsNaN(y) THEN NaN
    ELSE LET g == GCD(x[2], y[2])
         IN Rat(x[1] * (y[2] \div g) + y[1] * (x[2] \div g), (x[2] \div g) * y[2])

RSub(x, y) == IF IsNaN(y) THEN NaN ELSE RAdd(x, <<0 - y[1], y[2]>>)

\* x * y, cancelling across before multiplying
RMul(x, y) ==
    IF IsNaN(x) \/ IsNaN(y) THEN NaN
    ELSE LET a == Rat(x[1], y[2])
             b == Rat(y[1], x[2])
         IN <<a[1] * b[1], a[2] * b[2]>>

RDivInt(x, k) == IF IsNaN(x) THEN NaN ELSE Rat(x[1], x[2] * k)

\* comparisons with NaN are False, as in IEEE arithmetic
RLess(x, y) == ~IsNaN(x) /\ ~IsNaN(y) /\ x[1] * y[2] < y[1] * x[2]

RGeq(x, y) == ~IsNaN(x) /\ ~IsNaN(y) /\ x[1] * y[2] >= y[1] * x[2]

RLeq(x, y) == RGeq(y, x)

\* x.round(p): round half to even at p decimals (scale = 10^p)
Round(x, scale) ==
    IF IsNaN(x) THEN NaN
    ELSE LET n == x[1] * scale
             q == n \div x[2]
             r == n - q * x[2]
             up == \/ 2 * r > x[2]
                   \/ (2 * r = x[2] /\ q % 2 = 1)
         IN Rat(IF up THEN q + 1 ELSE q, scale)

Round2(x) == Round(x, 100)

Round3(x) == Round(x, 1000)

RECURSIVE Sum(_)
Sum(s) == IF Len(s) = 0 THEN Num(0) ELSE RAdd(Head(s), Sum(Tail(s)))

NotNa(s) == SelectSeq(s, LAMBDA x : ~IsNaN(x))

\* Series.mean(): NaN is skipped; the mean of nothing is NaN
Mean(s) == LET v == NotNa(s) IN
    IF Len(v) = 0 THEN NaN ELSE RDivInt(Sum(v), Len(v))

\* mean of a Boolean series: the share of True among ALL its entries
BoolMean(s) ==
    Rat(Len(SelectSeq(s, LAMBDA b : b)), Len(s))

\* Series.std() squared (ddof = 1): NaN with fewer than two values
Var(s) == LET v == NotNa(s)
              m == Mean(s)
              sq == [i \in 1..Len(v) |-> RMul(RSub(v[i], m), RSub(v[i], m))]
          IN IF Len(v) < 2 THEN NaN ELSE RDivInt(Sum(sq), Len(v) - 1)

\* the values of s in ascending order
RECURSIVE SortAsc(_)
SortAsc(s) ==
    IF Len(s) = 0 THEN <<>>
    ELSE LET i == CHOOSE i \in 1..Len(s) :
                      \A j \in 1..Len(s) : ~RLess(s[j], s[i])
             rest == [k \in 1..(Len(s) - 1) |-> IF k < i THEN s[k] ELSE s[k + 1]]
         IN <<s[i]>> \o SortAsc(rest)

\* Series.median(): NaN skipped; mean of the two middle values when even
Median(s) == LET v == SortAsc(NotNa(s))
                 n == Len(v)
             IN IF n = 0 THEN NaN
                ELSE IF n % 2 = 1 THEN v[(n + 1) \div 2]
                ELSE RDivInt(RAdd(v[n \div 2], v[n \div 2 + 1]), 2)

SeqToSet(s) == {s[i] : i \in 1..Len(s)}

(* ----------------------- Metrics Calculator: schema ------------------- *)
survey_cols ==
    <<"Survey1", "Survey2", "Survey3", "Survey4", "Survey5", "Survey6", "Survey7">>

required_columns ==
    survey_cols \o <<"College", "Campus", "GroupCode", "CourseCode", "CourseName">>

optional_columns == <<"Department">>

input_file == "ProcessedData500-sample-anon.csv"

output_dir == "computed_metrics"

(* ------------------------- input tables (bounded) --------------------- *)
AllFileCols == SeqToSet(required_columns) \cup SeqToSet(optional_columns) \cup {"gpa_equiv"}

SurveyIndex(c) == CHOOSE i \in 1..Len(survey_cols) : survey_cols[i] = c

IsSurveyCol(c) == c \in SeqToSet(survey_cols)

\* one line of the CSV file, every cell a text
FileRow(p, k) ==
    [c \in AllFileCols |->
        IF IsSurveyCol(c) THEN p[SurveyIndex(c)]
        ELSE IF c = "gpa_equiv" THEN "old"
        ELSE k[c]]

AllHigh == <<"5", "5", "5", "5", "5", "5", "5">>

Mixed == <<"4.5", "3", "2", "", "abc", "4", "0">>

AllMissing == <<"", "", "", "", "", "", "">>

OffScale == <<"6", "5", "5", "5", "5", "5", "5">>

Physics ==
    [College |-> "Engineering", Campus |-> "Sciences", GroupCode |-> "G1",
     CourseCode |-> "C1", CourseName |-> "Intro Physics", Department |-> "Physics"]

Maths ==
    [College |-> "Engineering", Campus |-> "Sciences", GroupCode |-> "G2",
     CourseCode |-> "C1", CourseName |-> "Intro Physics", Department |-> "Math"]

History ==
    [College |-> "Arts", Campus |-> "Humanities", GroupCode |-> "G3",
     CourseCode |-> "C2", CourseName |-> "intro History", Department |-> "History"]

\* the survey responses an input table is drawn from
RowChoices ==
    { FileRow(AllHigh, Physics), FileRow(Mixed, Physics), FileRow(Mixed, Maths),
      FileRow(AllMissing, Maths), FileRow(OffScale, History), FileRow(Mixed, History) }

Tables(maxRows) == UNION {[1..n -> RowChoices] : n \in 0..maxRows}

Restrict(rows, cols) == [i \in 1..Len(rows) |-> [c \in cols |-> rows[i][c]]]

\* the CSV files whose header has every required column
ValidFiles ==
    { [exists |-> TRUE, cols |-> AllFileCols \ drop, rows |-> Restrict(t, AllFileCols \ drop)] :
        drop \in SUBSET {"Department", "gpa_equiv"}, t \in Tables(MaxRows) }

\* the CSV files whose header lacks between 1 and MaxMissing required columns
InvalidFiles ==
    { [exists |-> TRUE,
       cols |-> AllFileCols \ (miss \cup drop),
       rows |-> Restrict(t, AllFileCols \ (miss \cup drop))] :
        miss \in {m \in SUBSET SeqToSet(required_columns) :
                     Cardinality(m) >= 1 /\ Cardinality(m) <= MaxMissing},
        drop \in SUBSET {"Department"},
        t \in Tables(1) }

NoFile == [exists |-> FALSE, cols |-> {}, rows |-> <<>>]

(* ------------------------------- state -------------------------------- *)
VARIABLES
    file,        \* the input CSV on disk: [exists, cols, rows]
    disk,        \* the page generator's inputs on disk: [readable, templates]
    pc,          \* position of main() / of the page generator script
    df,          \* MetricsCalculator.df: [columns, rows]
    log,         \* records emitted through logging, in order
    stdout,      \* lines printed by the page generator, in order
    raised,      \* the uncaught exception that ended the run, or "none"
    dirs,        \* directories that exist
    outFiles,    \* files written: name -> content
    locals,      \* main()'s metric variables: name -> value
    dataframes,  \* the page generator's loaded tables: key -> table
    loop_i,      \* index of the running for loop
    lastOp,      \* the operation called last (SpecCalls)
    ret          \* the value the last call returned (SpecCalls)

vars == <<file, disk, pc, df, log, stdout, raised, dirs, outFiles, locals,
          dataframes, loop_i, lastOp, ret>>

NoDf == [columns |-> {}, rows |-> <<>>]

LogRec(level, msg, arg) == [level |-> level, msg |-> msg, arg |-> arg]

(* ------------------------- MetricsCalculator.__init__ ----------------- *)
\* pd.read_csv: an empty field is missing (NaN), any other field is kept
read_csv(f) ==
    [columns |-> f.cols,
     rows |-> [i \in 1..Len(f.rows) |->
                 [c \in f.cols |-> IF f.rows[i][c] = "" THEN NaN ELSE <<f.rows[i][c]>>]]]

\* the number a text denotes, NaN when it denotes none (errors='coerce')
ParseNumber(s) ==
    CASE s = "0" -> Num(0)
      [] s = "2" -> Num(2)
      [] s = "3" -> Num(3)
      [] s = "4" -> Num(4)
      [] s = "4.5" -> Rat(9, 2)
      [] s = "5" -> Num(5)
      [] s = "6" -> Num(6)
      [] OTHER -> NaN

to_numeric(cell) == IF Len(cell) = 2 THEN cell ELSE ParseNumber(cell[1])

\* variant: only the survey columns are looked for
missing_cols_SurveyOnly(d) == {c \in SeqToSet(survey_cols) : c \notin d.columns}

missing_cols(d) == {c \in SeqToSet(required_columns) : c \notin d.columns}

missing_optional(d) == {c \in SeqToSet(optional_columns) : c \notin d.columns}

\* line 47: the survey columns coerced to numbers
CoerceSurvey(d) ==
    [d EXCEPT !.rows =
        [i \in 1..Len(d.rows) |->
            [c \in d.columns |->
                IF IsSurveyCol(c) THEN to_numeric(d.rows[i][c]) ELSE d.rows[i][c]]]]

(* --------------------------- DataFrame helpers ------------------------ *)
NRows(d) == Len(d.rows)

\* df[c] as a series
Column(rows, c) == [i \in 1..Len(rows) |-> rows[i][c]]

\* the groups of df.groupby(k): rows with a missing key belong to no group
GroupKeys(d, k) == {d.rows[i][k] : i \in 1..NRows(d)} \ {NaN}

GroupRows(d, k, g) == SelectSeq(d.rows, LAMBDA r : r[k] = g)

\* df.groupby(k)[c].mean()
GroupMean(d, k, c) == [g \in GroupKeys(d, k) |-> Mean(Column(GroupRows(d, k, g), c))]

\* df.groupby(k).size()
GroupSize(d, k) == [g \in GroupKeys(d, k) |-> Len(GroupRows(d, k, g))]

\* Series.nunique(): distinct non-missing values
NUnique(s) == Cardinality(SeqToSet(s) \ {NaN})

RoundDict(f) == [g \in DOMAIN f |-> Round2(f[g])]

\* the square root of v, kept exact as its radicand; scale = 10^decimals of a
\* later round(), 0 when the value is not rounded
Sqrt(v, scale) == [radicand |-> v, scale |-> scale]

\* df[survey_cols].mean(): the mean of each survey column, in column order
ColumnMeans(d) == [j \in 1..Len(survey_cols) |-> Mean(Column(d.rows, survey_cols[j]))]

\* mask.mean().mean() * 100 for a Boolean frame over the survey columns
MaskPct(mask) ==
    RMul(Mean([j \in 1..Len(survey_cols) |->
                  BoolMean([i \in 1..Len(mask) |-> mask[i][survey_cols[j]]])]),
         Num(100))

\* df[survey_cols].notna()
NotNaMask(d) ==
    [i \in 1..NRows(d) |-> [c \in SeqToSet(survey_cols) |-> ~IsNaN(d.rows[i][c])]]

(* -------------------- calculate_evaluation_metrics -------------------- *)
IsHigh(x) == RGeq(x, Rat(9, 2))

\* variant: the upper bound of medium is inclusive
IsMedium_Inclusive(x) == RGeq(x, Num(3)) /\ RLeq(x, Rat(9, 2))

IsMedium(x) == RGeq(x, Num(3)) /\ RLess(x, Rat(9, 2))

IsLow(x) == RLess(x, Num(3))

\* the Boolean frames of lines 89-91
HighMask(d) ==
    [i \in 1..NRows(d) |-> [c \in SeqToSet(survey_cols) |-> IsHigh(d.rows[i][c])]]

MediumMask(d) ==
    [i \in 1..NRows(d) |-> [c \in SeqToSet(survey_cols) |-> IsMedium(d.rows[i][c])]]

LowMask(d) ==
    [i \in 1..NRows(d) |-> [c \in SeqToSet(survey_cols) |-> IsLow(d.rows[i][c])]]

score_distribution(d) ==
    [high |-> MaskPct(HighMask(d)),
     medium |-> MaskPct(MediumMask(d)),
     low |-> MaskPct(LowMask(d))]

\* variant: the overall mean runs over every numeric column of the frame
calculate_evaluation_metrics_AllNumeric(d) ==
    LET numeric == survey_cols \o
            (IF "gpa_equiv" \in d.columns /\ NRows(d) > 0
                  /\ \A i \in 1..NRows(d) : Len(d.rows[i]["gpa_equiv"]) = 2
             THEN <<"gpa_equiv">> ELSE <<>>)
    IN
    [overall |->
        [mean |-> Mean([j \in 1..Len(numeric) |-> Mean(Column(d.rows, numeric[j]))]),
         response_rate |-> Round2(MaskPct(NotNaMask(d)))],
     per_question |->
        [c \in SeqToSet(survey_cols) |->
            [mean |-> Mean(Column(d.rows, c)),
             median |-> Median(Column(d.rows, c)),
             std |-> Sqrt(Var(Column(d.rows, c)), 0),
             response_rate |->
                Round2(RMul(BoolMean([i \in 1..NRows(d) |-> ~IsNaN(d.rows[i][c])]),
                            Num(100)))]],
     score_distribution |-> score_distribution(d),
     college_scores |->
        [c \in SeqToSet(survey_cols) |-> RoundDict(GroupMean(d, "College", c))]]

calculate_evaluation_metrics(d) ==
    [overall |->
        [mean |-> Mean(ColumnMeans(d)),
         response_rate |-> Round2(MaskPct(NotNaMask(d)))],
     per_question |->
        [c \in SeqToSet(survey_cols) |->
            [mean |-> Mean(Column(d.rows, c)),
             median |-> Median(Column(d.rows, c)),
             std |-> Sqrt(Var(Column(d.rows, c)), 0),
             response_rate |->
                Round2(RMul(BoolMean([i \in 1..NRows(d) |-> ~IsNaN(d.rows[i][c])]),
                            Num(100)))]],
     score_distribution |-> score_distribution(d),
     college_scores |->
        [c \in SeqToSet(survey_cols) |-> RoundDict(GroupMean(d, "College", c))]]

(* -------------------- calculate_performance_metrics ------------------- *)
\* variant: the scale of a 0-4 survey
gpa_scale_FourPointSurvey == Rat(9, 8)

\* 4.5 / 5
gpa_scale == Rat(9, 10)

\* df[survey_cols].mean(axis=1) * gpa_scale, for one row
gpa_equiv(row) ==
    RMul(Mean([i \in 1..Len(survey_cols) |-> row[survey_cols[i]]]), gpa_scale)

\* variant: missing scores are filled with 0 in the frame before the mean
AssignGpaEquiv_FillNa(d) ==
    [columns |-> d.columns \cup {"gpa_equiv"},
     rows |-> [i \in 1..NRows(d) |->
                 [c \in d.columns \cup {"gpa_equiv"} |->
                     IF c = "gpa_equiv" THEN gpa_equiv(d.rows[i])
                     ELSE IF IsSurveyCol(c) /\ IsNaN(d.rows[i][c]) THEN Num(0)
                     ELSE d.rows[i][c]]]]

\* line 99: the column gpa_equiv is assigned into self.df
AssignGpaEquiv(d) ==
    [columns |-> d.columns \cup {"gpa_equiv"},
     rows |-> [i \in 1..NRows(d) |->
                 [c \in d.columns \cup {"gpa_equiv"} |->
                     IF c = "gpa_equiv" THEN gpa_equiv(d.rows[i]) ELSE d.rows[i][c]]]]

\* groupby(k).agg({'gpa_equiv': ['mean', 'std', 'count']}).round(3)
GpaByGroup(d, k) ==
    [mean |-> [g \in GroupKeys(d, k) |->
                  Round3(Mean(Column(GroupRows(d, k, g), "gpa_equiv")))],
     std |-> [g \in GroupKeys(d, k) |->
                  Sqrt(Var(Column(GroupRows(d, k, g), "gpa_equiv")), 1000)],
     count |-> [g \in GroupKeys(d, k) |->
                  Len(NotNa(Column(GroupRows(d, k, g), "gpa_equiv")))]]

\* returns the frame as the call leaves it and the metrics it returns
calculate_performance_metrics(d) ==
    LET d2 == AssignGpaEquiv(d) IN
    [df |-> d2,
     ret |->
        [overall |->
            [mean_gpa |-> Mean(Column(d2.rows, "gpa_equiv")),
             std_gpa |-> Sqrt(Var(Column(d2.rows, "gpa_equiv")), 0)],
         college_performance |-> GpaByGroup(d2, "College"),
         course_performance |-> GpaByGroup(d2, "GroupCode")]]

(* -------------------- calculate_demographic_metrics ------------------- *)
\* Series.quantile(qn/qd) with linear interpolation, NaN skipped
Quantile(s, qn, qd) ==
    LET v == SortAsc(NotNa(s))
        n == Len(v)
        lo == ((n - 1) * qn) \div qd
        frac == Rat((n - 1) * qn - lo * qd, qd)
    IN IF n = 0 THEN NaN
       ELSE IF lo + 1 >= n THEN v[lo + 1]
       ELSE RAdd(v[lo + 1], RMul(frac, RSub(v[lo + 2], v[lo + 1])))

\* Series.describe().round(2)
Describe(s) ==
    LET v == SortAsc(NotNa(s)) IN
    [count |-> Num(Len(v)),
     mean |-> Round2(Mean(s)),
     std |-> Sqrt(Var(s), 100),
     min |-> IF Len(v) = 0 THEN NaN ELSE Round2(v[1]),
     q25 |-> Round2(Quantile(s, 1, 4)),
     q50 |-> Round2(Quantile(s, 1, 2)),
     q75 |-> Round2(Quantile(s, 3, 4)),
     max |-> IF Len(v) = 0 THEN NaN ELSE Round2(v[Len(v)])]

\* the sizes of the groups, as a series in some order of the groups
RECURSIVE SizesOf(_, _)
SizesOf(sizes, keys) ==
    IF keys = {} THEN <<>>
    ELSE LET g == CHOOSE g \in keys : TRUE
         IN <<Num(sizes[g])>> \o SizesOf(sizes, keys \ {g})

calculate_demographic_metrics(d) ==
    [college_distribution |->
        [section_count |->
            [g \in GroupKeys(d, "College") |->
                NUnique(Column(GroupRows(d, "College", g), "GroupCode"))],
         course_count |->
            [g \in GroupKeys(d, "College") |->
                NUnique(Column(GroupRows(d, "College", g), "CourseCode"))]],
     campus_distribution |-> GroupSize(d, "Campus"),
     course_size |->
        Describe(SizesOf(GroupSize(d, "GroupCode"), GroupKeys(d, "GroupCode")))]

(* -------------------- calculate_additional_metrics -------------------- *)
\* sort_values(ascending=False).head(n): the keys of the n largest values,
\* missing values last
RECURSIVE HeadDesc(_, _, _)
HeadDesc(f, keys, n) ==
    IF n = 0 \/ keys = {} THEN {}
    ELSE LET present == {g \in keys : ~IsNaN(f[g])}
             g == IF present = {} THEN CHOOSE k \in keys : TRUE
                  ELSE CHOOSE k \in present : \A o \in present : ~RLess(f[k], f[o])
         IN {g} \cup HeadDesc(f, keys \ {g}, n - 1)

\* groupby(k)[c].mean().sort_values(ascending=False).head(10).round(2).to_dict()
Top10(d, k, c) ==
    LET f == GroupMean(d, k, c) IN
    [g \in HeadDesc(f, DOMAIN f, 10) |-> Round2(f[g])]

\* word.lower() for word in str(name).split()
NameWords(name) ==
    CASE name = <<"Intro Physics">> -> <<"intro", "physics">>
      [] name = <<"intro History">> -> <<"intro", "history">>
      [] OTHER -> <<"nan">>

RECURSIVE Flatten(_)
Flatten(ss) == IF Len(ss) = 0 THEN <<>> ELSE Head(ss) \o Flatten(Tail(ss))

CountIn(ws, w) == Len(SelectSeq(ws, LAMBDA x : x = w))

FirstAt(ws, w) == CHOOSE i \in 1..Len(ws) : ws[i] = w /\ \A j \in 1..(i - 1) : ws[j] # w

\* Counter(words).most_common(n): by count, ties in order of first occurrence
RECURSIVE MostCommon(_, _, _)
MostCommon(ws, left, n) ==
    IF n = 0 \/ left = {} THEN <<>>
    ELSE LET w == CHOOSE w \in left : \A o \in left :
                     \/ CountIn(ws, w) > CountIn(ws, o)
                     \/ (CountIn(ws, w) = CountIn(ws, o) /\ FirstAt(ws, w) <= FirstAt(ws, o))
         IN <<(<<w, CountIn(ws, w)>>)>> \o MostCommon(ws, left \ {w}, n - 1)

course_name_keywords(d) ==
    LET ws == Flatten([i \in 1..NRows(d) |-> NameWords(d.rows[i]["CourseName"])])
    IN MostCommon(ws, SeqToSet(ws), 10)

EmptyDict == [g \in {} |-> NaN]

calculate_additional_metrics(d) ==
    [average_scores |->
        [c \in SeqToSet(survey_cols) |->
            [by_department |->
                IF "Department" \in d.columns
                THEN RoundDict(GroupMean(d, "Department", c)) ELSE EmptyDict,
             by_college |-> RoundDict(GroupMean(d, "College", c)),
             by_humanities_sciences |-> RoundDict(GroupMean(d, "Campus", c))]],
     top_10_colleges |-> [c \in SeqToSet(survey_cols) |-> Top10(d, "College", c)],
     top_10_courses |-> [c \in SeqToSet(survey_cols) |-> Top10(d, "CourseCode", c)],
     course_name_keywords |-> course_name_keywords(d)]

(* ----------------------- generate_summary_report ---------------------- *)
\* the report's lines; f"{x:.2f}" prints x at two decimals
generate_summary_report(d) ==
    LET eval_metrics == calculate_evaluation_metrics(d)
        perf == CHOOSE r \in {calculate_performance_metrics(d)} : TRUE
        demo_metrics == calculate_demographic_metrics(perf.df)
    IN [df |-> perf.df,
        ret |->
          [total_students |-> NRows(perf.df),
           unique_courses |-> NUnique(Column(perf.df.rows, "CourseCode")),
           course_sections |-> NUnique(Column(perf.df.rows, "GroupCode")),
           overall_satisfaction |-> Round2(eval_metrics.overall.mean),
           average_gpa |-> Round2(perf.ret.overall.mean_gpa),
           college_lines |-> demo_metrics.college_distribution.section_count]]

(* ---------------------------- file output ----------------------------- *)
Path(name) == output_dir \o "/" \o name

EmptyMap == [k \in {} |-> <<>>]

\* a CSV written from a frame built from data; layout names how it was built
Csv(layout, data) == [layout |-> layout, data |-> data]

WriteFile(files, name, content) ==
    [k \in DOMAIN files \cup {name} |-> IF k = name THEN content ELSE files[k]]

\* save_metrics_to_csv: a dict of scalars becomes Metric/Value rows, a dict
\* of dicts becomes the transposed frame; the save is logged
save_metrics_to_csv(st, metrics_dict, scalars, filename) ==
    [files |-> WriteFile(st.files, filename,
                         Csv(IF scalars THEN "metric_value" ELSE "transposed", metrics_dict)),
     log |-> Append(st.log, LogRec("INFO", "Saved metrics to", {filename}))]

\* pd.DataFrame(data).to_csv(filename)
frame_to_csv(st, data, filename) ==
    [files |-> WriteFile(st.files, filename, Csv("frame", data)), log |-> st.log]

Info(st, msg, arg) == [files |-> st.files, log |-> Append(st.log, LogRec("INFO", msg, arg))]

(* --------------------- main(): MetricsCalculator(...) ----------------- *)
PageVarsUnchanged == UNCHANGED <<disk, stdout, dataframes>>

CallVarsUnchanged == UNCHANGED <<lastOp, ret>>

\* variant: the output directory is made before the input is looked at
InitCheckFile_MakeDirsFirst ==
    /\ pc = "start"
    /\ dirs' = dirs \cup {output_dir}
    /\ IF file.exists
       THEN /\ pc' = "read_csv"
            /\ log' = log
       ELSE /\ pc' = "raise_file_not_found"
            /\ log' = Append(log, LogRec("ERROR", "Data file not found", {input_file}))
    /\ UNCHANGED <<file, df, raised, outFiles, locals, loop_i>>
    /\ PageVarsUnchanged /\ CallVarsUnchanged

\* lines 25-26: the existence check, the error logged when it fails
InitCheckFile ==
    /\ pc = "start"
    /\ IF file.exists
       THEN /\ pc' = "read_csv"
            /\ log' = log
       ELSE /\ pc' = "raise_file_not_found"
            /\ log' = Append(log, LogRec("ERROR", "Data file not found", {input_file}))
    /\ UNCHANGED <<file, df, raised, dirs, outFiles, locals, loop_i>>
    /\ PageVarsUnchanged /\ CallVarsUnchanged

\* line 27
RaiseFileNotFound ==
    /\ pc = "raise_file_not_found"
    /\ raised' = "FileNotFoundError"
    /\ pc' = "terminated"
    /\ UNCHANGED <<file, df, log, dirs, outFiles, locals, loop_i>>
    /\ PageVarsUnchanged /\ CallVarsUnchanged

\* line 29
InitReadCsv ==
    /\ pc = "read_csv"
    /\ df' = read_csv(file)
    /\ pc' = "check_required"
    /\ UNCHANGED <<file, log, raised, dirs, outFiles, locals, loop_i>>
    /\ PageVarsUnchanged /\ CallVarsUnchanged

\* lines 36-38: the missing required columns, logged when there are any
InitCheckRequired ==
    /\ pc = "check_required"
    /\ IF missing_cols(df) # {}
       THEN /\ log' = Append(log, LogRec("ERROR", "Missing required columns", missing_cols(df)))
            /\ pc' = "raise_missing"
       ELSE /\ log' = log
            /\ pc' = "check_optional"
    /\ UNCHANGED <<file, df, raised, dirs, outFiles, locals, loop_i>>
    /\ PageVarsUnchanged /\ CallVarsUnchanged

\* line 39
RaiseValueError ==
    /\ pc = "raise_missing"
    /\ raised' = "ValueError"
    /\ pc' = "terminated"
    /\ UNCHANGED <<file, df, log, dirs, outFiles, locals, loop_i>>
    /\ PageVarsUnchanged /\ CallVarsUnchanged

\* variant: a missing optional column is passed over in silence
OptionalWarnings_Silent(d) == <<>>

\* lines 42-44: one warning per missing optional column
OptionalWarnings(d) ==
    IF missing_optional(d) = {} THEN <<>>
    ELSE <<LogRec("WARNING", "Optional column missing", missing_optional(d))>>

\* lines 41-47: warnings, then the survey columns coerced
InitOptionalAndCoerce ==
    /\ pc = "check_optional"
    /\ log' = log \o OptionalWarnings(df)
    /\ df' = CoerceSurvey(df)
    /\ pc' = "makedirs"
    /\ UNCHANGED <<file, raised, dirs, outFiles, locals, loop_i>>
    /\ PageVarsUnchanged /\ CallVarsUnchanged

(* ------------------------------ main() -------------------------------- *)
\* line 174
MakeOutputDir ==
    /\ pc = "makedirs"
    /\ dirs' = dirs \cup {output_dir}
    /\ pc' = "calc_evaluation"
    /\ UNCHANGED <<file, df, log, raised, outFiles, locals, loop_i>>
    /\ PageVarsUnchanged /\ CallVarsUnchanged

SetLocal(name, value) ==
    [k \in DOMAIN locals \cup {name} |-> IF k = name THEN value ELSE locals[k]]

\* line 177
CalcEvaluation ==
    /\ pc = "calc_evaluation"
    /\ locals' = SetLocal("evaluation_metrics", calculate_evaluation_metrics(df))
    /\ pc' = "calc_performance"
    /\ UNCHANGED <<file, df, log, raised, dirs, outFiles, loop_i>>
    /\ PageVarsUnchanged /\ CallVarsUnchanged

\* line 178
CalcPerformance ==
    /\ pc = "calc_performance"
    /\ \E r \in {calculate_performance_metrics(df)} :
          /\ locals' = SetLocal("performance_metrics", r.ret)
          /\ df' = r.df
    /\ pc' = "calc_demographic"
    /\ UNCHANGED <<file, log, raised, dirs, outFiles, loop_i>>
    /\ PageVarsUnchanged /\ CallVarsUnchanged

\* line 179
CalcDemographic ==
    /\ pc = "calc_demographic"
    /\ locals' = SetLocal("demographic_metrics", calculate_demographic_metrics(df))
    /\ pc' = "calc_additional"
    /\ UNCHANGED <<file, df, log, raised, dirs, outFiles, loop_i>>
    /\ PageVarsUnchanged /\ CallVarsUnchanged

\* line 180
CalcAdditional ==
    /\ pc = "calc_additional"
    /\ locals' = SetLocal("additional_metrics", calculate_additional_metrics(df))
    /\ pc' = "save_evaluation"
    /\ UNCHANGED <<file, df, log, raised, dirs, outFiles, loop_i>>
    /\ PageVarsUnchanged /\ CallVarsUnchanged

Out == [files |-> outFiles, log |-> log]

\* lines 183-186
SaveEvaluation ==
    /\ pc = "save_evaluation"
    /\ LET m == locals["evaluation_metrics"]
           s1 == save_metrics_to_csv(Out, m.per_question, FALSE,
                                     Path("evaluation_per_question.csv"))
           s2 == save_metrics_to_csv(s1, m.score_distribution, TRUE,
                                     Path("evaluation_distribution.csv"))
           s3 == frame_to_csv(s2, m.college_scores, Path("evaluation_by_college.csv"))
           s4 == Info(s3, "Saved evaluation metrics", {})
       IN outFiles' = s4.files /\ log' = s4.log
    /\ pc' = "save_performance"
    /\ UNCHANGED <<file, df, raised, dirs, locals, loop_i>>
    /\ PageVarsUnchanged /\ CallVarsUnchanged

\* lines 189-192
SavePerformance ==
    /\ pc = "save_performance"
    /\ LET m == locals["performance_metrics"]
           s1 == save_metrics_to_csv(Out, m.overall, TRUE, Path("performance_overall.csv"))
           s2 == frame_to_csv(s1, m.college_performance, Path("performance_by_college.csv"))
           s3 == frame_to_csv(s2, m.course_performance, Path("performance_by_course.csv"))
           s4 == Info(s3, "Saved performance metrics", {})
       IN outFiles' = s4.files /\ log' = s4.log
    /\ pc' = "save_demographic"
    /\ UNCHANGED <<file, df, raised, dirs, locals, loop_i>>
    /\ PageVarsUnchanged /\ CallVarsUnchanged

\* lines 195-198
SaveDemographic ==
    /\ pc = "save_demographic"
    /\ LET m == locals["demographic_metrics"]
           s1 == frame_to_csv(Out, m.college_distribution, Path("demographics_college.csv"))
           s2 == save_metrics_to_csv(s1, m.campus_distribution, TRUE,
                                     Path("demographics_campus.csv"))
           s3 == save_metrics_to_csv(s2, m.course_size, TRUE,
                                     Path("demographics_course_size.csv"))
           s4 == Info(s3, "Saved demographic metrics", {})
       IN outFiles' = s4.files /\ log' = s4.log
    /\ pc' = "save_average_scores"
    /\ loop_i' = 1
    /\ UNCHANGED <<file, df, raised, dirs, locals>>
    /\ PageVarsUnchanged /\ CallVarsUnchanged

\* one iteration of a per-question save loop: the file of question loop_i
SaveLoop(here, next, key, prefix) ==
    /\ pc = here
    /\ LET c == survey_cols[loop_i]
           filename == Path(prefix \o c \o ".csv")
           s1 == frame_to_csv(Out, locals["additional_metrics"][key][c], filename)
           s2 == Info(s1, "Saved", {filename})
       IN outFiles' = s2.files /\ log' = s2.log
    /\ IF loop_i < Len(survey_cols)
       THEN loop_i' = loop_i + 1 /\ pc' = here
       ELSE loop_i' = 1 /\ pc' = next
    /\ UNCHANGED <<file, df, raised, dirs, locals>>
    /\ PageVarsUnchanged /\ CallVarsUnchanged

\* lines 201-204
SaveAverageScores ==
    SaveLoop("save_average_scores", "save_top_colleges", "average_scores", "average_scores_")

\* lines 206-209
SaveTopColleges ==
    SaveLoop("save_top_colleges", "save_top_courses", "top_10_colleges", "top_10_colleges_")

\* lines 211-214
SaveTopCourses ==
    SaveLoop("save_top_courses", "save_keywords", "top_10_courses", "top_10_courses_")

\* lines 216-218
SaveKeywords ==
    /\ pc = "save_keywords"
    /\ LET filename == Path("course_name_keywords.csv")
           s1 == frame_to_csv(Out, locals["additional_metrics"].course_name_keywords, filename)
           s2 == Info(s1, "Saved", {filename})
       IN outFiles' = s2.files /\ log' = s2.log
    /\ pc' = "save_summary"
    /\ UNCHANGED <<file, df, raised, dirs, locals, loop_i>>
    /\ PageVarsUnchanged /\ CallVarsUnchanged

\* lines 221-224: the report is computed (recomputing the metrics) and written
SaveSummary ==
    /\ pc = "save_summary"
    /\ \E r \in {generate_summary_report(df)} :
          LET summary_file == Path("summary_report.txt")
              s1 == [files |-> WriteFile(outFiles, summary_file, r.ret), log |-> log]
              s2 == Info(s1, "Saved summary report to", {summary_file})
          IN /\ df' = r.df
             /\ outFiles' = s2.files
             /\ log' = s2.log
    /\ pc' = "log_completion"
    /\ UNCHANGED <<file, raised, dirs, locals, loop_i>>
    /\ PageVarsUnchanged /\ CallVarsUnchanged

CompletionMessage == LogRec("INFO", "All metrics have been calculated and saved successfully.", {})

\* line 227
LogCompletion ==
    /\ pc = "log_completion"
    /\ log' = Append(log, CompletionMessage)
    /\ pc' = "done"
    /\ UNCHANGED <<file, df, raised, dirs, outFiles, locals, loop_i>>
    /\ PageVarsUnchanged /\ CallVarsUnchanged

NoDisk == [readable |-> {}, templates |-> {}]

InitMain ==
    /\ file \in ValidFiles \cup InvalidFiles \cup {NoFile}
    /\ disk = NoDisk
    /\ pc = "start"
    /\ df = NoDf
    /\ log = <<>>
    /\ stdout = <<>>
    /\ raised = "none"
    /\ dirs = {}
    /\ outFiles = EmptyMap
    /\ locals = EmptyMap
    /\ dataframes = EmptyMap
    /\ loop_i = 1
    /\ lastOp = "none"
    /\ ret = <<>>

NextMain ==
    \/ InitCheckFile
    \/ RaiseFileNotFound
    \/ InitReadCsv
    \/ InitCheckRequired
    \/ RaiseValueError
    \/ InitOptionalAndCoerce
    \/ MakeOutputDir
    \/ CalcEvaluation
    \/ CalcPerformance
    \/ CalcDemographic
    \/ CalcAdditional
    \/ SaveEvaluation
    \/ SavePerformance
    \/ SaveDemographic
    \/ SaveAverageScores
    \/ SaveTopColleges
    \/ SaveTopCourses
    \/ SaveKeywords
    \/ SaveSummary
    \/ LogCompletion

SpecMain == InitMain /\ [][NextMain]_vars

(* ------------- calls on a constructed calculator, in any order -------- *)
\* MetricsCalculator(data_file) for a file the constructor accepts
Construct(f) == CoerceSurvey(read_csv(f))

MainVarsUnchanged == UNCHANGED <<file, pc, log, raised, dirs, outFiles, locals, loop_i>>

Call(op, d, value) ==
    /\ pc = "constructed"
    /\ lastOp' = op
    /\ df' = d
    /\ ret' = value
    /\ MainVarsUnchanged /\ PageVarsUnchanged

CallAdditional == Call("additional", df, calculate_additional_metrics(df))

CallEvaluation == Call("evaluation", df, calculate_evaluation_metrics(df))

CallPerformance ==
    /\ pc = "constructed"
    /\ \E r \in {calculate_performance_metrics(df)} : Call("performance", r.df, r.ret)

CallDemographic == Call("demographic", df, calculate_demographic_metrics(df))

CallSummary ==
    /\ pc = "constructed"
    /\ \E r \in {generate_summary_report(df)} : Call("summary", r.df, r.ret)

InitCalls ==
    /\ file \in ValidFiles
    /\ disk = NoDisk
    /\ pc = "constructed"
    /\ df = Construct(file)
    /\ log = OptionalWarnings(read_csv(file))
    /\ stdout = <<>>
    /\ raised = "none"
    /\ dirs = {}
    /\ outFiles = EmptyMap
    /\ locals = EmptyMap
    /\ dataframes = EmptyMap
    /\ loop_i = 1
    /\ lastOp = "none"
    /\ ret = <<>>

NextCalls ==
    \/ CallAdditional
    \/ CallEvaluation
    \/ CallPerformance
    \/ CallDemographic
    \/ CallSummary

SpecCalls == InitCalls /\ [][NextCalls]_vars

(* --------------------------- Page Generator --------------------------- *)
metadata_dir == "./output_metadata"

output_pages_dir == "./output_pages"

\* the keys of metadata_files, in the order the loop visits them
metadata_keys ==
    <<"core_metrics", "groupcode_metrics", "course_rankings", "size_distribution",
      "detailed_stats">>

metadata_files ==
    [k \in SeqToSet(metadata_keys) |->
        metadata_dir \o "/" \o
        (CASE k = "core_metrics" -> "1_standardized-core-metrics-populated.csv"
           [] k = "groupcode_metrics" -> "2_standardized-groupcode-metrics-populated.csv"
           [] k = "course_rankings" -> "3_standardized-course-rankings-populated.csv"
           [] k = "size_distribution" -> "4_standardized-size-distribution-populated.csv"
           [] k = "detailed_stats" -> "5_standardized-detailed-stats-populated.csv")]

TemplateNames == {"demographics_template.html", "evaluation_template.html"}

CalcVarsUnchanged == UNCHANGED <<file, df, log, locals>>

\* line 32
PgMakeDirs ==
    /\ pc = "pg_makedirs"
    /\ dirs' = dirs \cup {output_pages_dir}
    /\ pc' = "pg_load"
    /\ loop_i' = 1
    /\ UNCHANGED <<disk, stdout, raised, outFiles, dataframes>>
    /\ CalcVarsUnchanged /\ CallVarsUnchanged

\* variant: the first unreadable file ends the script
PgLoad_AbortOnError ==
    /\ pc = "pg_load"
    /\ LET key == metadata_keys[loop_i]
       IN IF key \in disk.readable
          THEN /\ dataframes' = [k \in DOMAIN dataframes \cup {key} |->
                                    IF k = key THEN [source |-> metadata_files[key]]
                                    ELSE dataframes[k]]
               /\ stdout' = Append(stdout, <<"Loaded", key>>)
               /\ raised' = raised
               /\ IF loop_i < Len(metadata_keys)
                  THEN loop_i' = loop_i + 1 /\ pc' = "pg_load"
                  ELSE loop_i' = 1 /\ pc' = "pg_env"
          ELSE /\ raised' = "FileNotFoundError"
               /\ pc' = "terminated"
               /\ UNCHANGED <<dataframes, stdout, loop_i>>
    /\ UNCHANGED <<disk, dirs, outFiles>>
    /\ CalcVarsUnchanged /\ CallVarsUnchanged

\* the table pd.read_csv returns for a readable file
TableOf(path) == [source |-> path]

\* lines 45-50: one iteration of the loading loop
PgLoad ==
    /\ pc = "pg_load"
    /\ LET key == metadata_keys[loop_i]
           file_path == metadata_files[key]
       IN IF key \in disk.readable
          THEN /\ dataframes' = [k \in DOMAIN dataframes \cup {key} |->
                                    IF k = key THEN TableOf(file_path) ELSE dataframes[k]]
               /\ stdout' = Append(stdout, <<"Loaded", key>>)
          ELSE /\ dataframes' = dataframes
               /\ stdout' = Append(stdout, <<"Error loading", key>>)
    /\ IF loop_i < Len(metadata_keys)
       THEN loop_i' = loop_i + 1 /\ pc' = "pg_load"
       ELSE loop_i' = 1 /\ pc' = "pg_env"
    /\ UNCHANGED <<disk, raised, dirs, outFiles>>
    /\ CalcVarsUnchanged /\ CallVarsUnchanged

\* line 53: the template environment is set up; nothing is read yet
PgEnv ==
    /\ pc = "pg_env"
    /\ pc' = "pg_demographics"
    /\ UNCHANGED <<disk, stdout, raised, dirs, outFiles, dataframes, loop_i>>
    /\ CalcVarsUnchanged /\ CallVarsUnchanged

\* generate_html: env.get_template raises TemplateNotFound for an absent
\* template; otherwise the rendered page is written
generate_html(files, template_name, output_name, context) ==
    IF template_name \notin disk.templates
    THEN [raised |-> "TemplateNotFound", files |-> files]
    ELSE [raised |-> "none",
          files |-> WriteFile(files, output_pages_dir \o "/" \o output_name,
                              [template |-> template_name, context |-> context])]

\* df.to_dict(orient="records")
Records(table) == [records_of |-> table.source]

\* one page block: skipped when its table did not load; an exception of
\* generate_html is not caught and ends the script
PageBlock(here, next, key, template_name, output_name, title, done_msg) ==
    /\ pc = here
    /\ IF key \in DOMAIN dataframes
       THEN LET r == generate_html(outFiles, template_name, output_name,
                                   [title |-> title, data |-> Records(dataframes[key])])
            IN IF r.raised = "none"
               THEN /\ outFiles' = r.files
                    /\ stdout' = Append(stdout, <<done_msg, key>>)
                    /\ raised' = raised
                    /\ pc' = next
               ELSE /\ outFiles' = outFiles
                    /\ stdout' = stdout
                    /\ raised' = r.raised
                    /\ pc' = "terminated"
       ELSE /\ pc' = next
            /\ UNCHANGED <<outFiles, stdout, raised>>
    /\ UNCHANGED <<disk, dirs, dataframes, loop_i>>
    /\ CalcVarsUnchanged /\ CallVarsUnchanged

\* lines 64-71
PgDemographics ==
    PageBlock("pg_demographics", "pg_evaluation", "core_metrics",
              "demographics_template.html", "demographics.html",
              "Demographics Analysis", "Demographics page generated.")

\* variant: the evaluation page is bound to the demographics table
PgEvaluation_WrongTable ==
    PageBlock("pg_evaluation", "pg_complete", "core_metrics",
              "evaluation_template.html", "evaluation.html",
              "Evaluation Analysis", "Evaluation page generated.")

\* lines 74-81
PgEvaluation ==
    PageBlock("pg_evaluation", "pg_complete", "detailed_stats",
              "evaluation_template.html", "evaluation.html",
              "Evaluation Analysis", "Evaluation page generated.")

PgCompletionLine == <<"HTML page generation completed.", "">>

\* line 85
PgComplete ==
    /\ pc = "pg_complete"
    /\ stdout' = Append(stdout, PgCompletionLine)
    /\ pc' = "done"
    /\ UNCHANGED <<disk, raised, dirs, outFiles, dataframes, loop_i>>
    /\ CalcVarsUnchanged /\ CallVarsUnchanged

InitPages ==
    /\ file = NoFile
    /\ disk \in [readable : SUBSET SeqToSet(metadata_keys), templates : SUBSET TemplateNames]
    /\ pc = "pg_makedirs"
    /\ df = NoDf
    /\ log = <<>>
    /\ stdout = <<>>
    /\ raised = "none"
    /\ dirs = {}
    /\ outFiles = EmptyMap
    /\ locals = EmptyMap
    /\ dataframes = EmptyMap
    /\ loop_i = 1
    /\ lastOp = "none"
    /\ ret = <<>>

NextPages ==
    \/ PgMakeDirs
    \/ PgLoad
    \/ PgEnv
    \/ PgDemographics
    \/ PgEvaluation
    \/ PgComplete

SpecPages == InitPages /\ [][NextPages]_vars

(* ------- either script run once, or a calculator called at will ------ *)
Init == InitMain \/ InitPages \/ InitCalls

Next == NextMain \/ NextPages \/ NextCalls

Spec == Init /\ [][Next]_vars

(* ====================================================================== *)
(*                               Properties                               *)
(* ====================================================================== *)
MissingRequired == SeqToSet(required_columns) \ file.cols

LogSet == SeqToSet(log)

OutSet == SeqToSet(stdout)

\* positions of main() before its constructor call has returned
ConstructorPcs ==
    {"start", "read_csv", "check_required", "check_optional",
     "raise_file_not_found", "raise_missing"}

\* positions of main() at which its next statement runs (each action of
\* NextMain is guarded by its position alone)
MainRunningPcs ==
    {"start", "read_csv", "check_required", "check_optional", "makedirs",
     "calc_evaluation", "calc_performance", "calc_demographic", "calc_additional",
     "save_evaluation", "save_performance", "save_demographic", "save_average_scores",
     "save_top_colleges", "save_top_courses", "save_keywords", "save_summary",
     "log_completion"}

MissingError == LogRec("ERROR", "Missing required columns", MissingRequired)

(* C1: when the input table lacks a required column the run fails: the     *)
(* missing set is logged as an error before ValueError is raised, and on   *)
(* that path no output directory is created, no file is written and the    *)
(* completion message is never logged.                                     *)
C1_MissingRequiredFailsRun ==
    (file.exists /\ MissingRequired # {}) =>
        /\ pc \in {"start", "read_csv", "check_required", "raise_missing", "terminated"}
        /\ raised \in {"none", "ValueError"}
        /\ (pc = "terminated") = (raised = "ValueError")
        /\ pc \in {"raise_missing", "terminated"} => log = <<MissingError>>
        /\ pc \notin {"raise_missing", "terminated"} => log = <<>>
        /\ pc # "terminated" => ENABLED NextMain
        /\ dirs = {}
        /\ outFiles = EmptyMap
        /\ CompletionMessage \notin LogSet

C1_Witness ==
    /\ file.exists
    /\ "College" \in MissingRequired
    /\ raised = "ValueError"
    /\ log = <<MissingError>>

(* C2: the loading loop attempts every one of the five metadata files; a   *)
(* failure is reported for that file only and neither ends the run nor     *)
(* stops the later attempts; after the loop the loaded tables are exactly  *)
(* the files that could be read.                                           *)
Attempted == {stdout[i][2] : i \in {j \in 1..Len(stdout) : stdout[j][1] \in {"Loaded", "Error loading"}}}

KeysBefore(i) == {metadata_keys[j] : j \in 1..(i - 1)}

C2_EveryFileAttempted ==
    LET visited == IF pc = "pg_makedirs" THEN {}
                   ELSE IF pc = "pg_load" THEN KeysBefore(loop_i)
                   ELSE SeqToSet(metadata_keys)
    IN /\ Attempted = visited
       /\ DOMAIN dataframes = visited \cap disk.readable
       /\ \A k \in visited :
             /\ (<<"Loaded", k>> \in OutSet) = (k \in disk.readable)
             /\ (<<"Error loading", k>> \in OutSet) = (k \notin disk.readable)
       /\ pc \in {"pg_makedirs", "pg_load", "pg_env"} => raised = "none"
       /\ pc \in {"pg_makedirs", "pg_load"} => ENABLED NextPages

C2_Witness ==
    /\ pc = "pg_env"
    /\ disk.readable = {"groupcode_metrics", "detailed_stats"}
    /\ DOMAIN dataframes = {"groupcode_metrics", "detailed_stats"}
    /\ <<"Error loading", "core_metrics">> \in OutSet

DemographicsPage == output_pages_dir \o "/demographics.html"

EvaluationPage == output_pages_dir \o "/evaluation.html"

(* C3: with both templates present a page is written exactly when its      *)
(* metadata file loaded (demographics.html with core_metrics,              *)
(* evaluation.html with detailed_stats), independently of the other page;  *)
(* nothing is raised and the run reaches the completion message.           *)
C3_PageIffTableLoaded ==
    disk.templates = TemplateNames =>
        /\ raised = "none"
        /\ pc # "terminated"
        /\ pc # "done" => ENABLED NextPages
        /\ pc \in {"pg_evaluation", "pg_complete", "done"} =>
              ((DemographicsPage \in DOMAIN outFiles) = ("core_metrics" \in disk.readable))
        /\ pc \in {"pg_complete", "done"} =>
              ((EvaluationPage \in DOMAIN outFiles) = ("detailed_stats" \in disk.readable))
        /\ pc \in {"pg_makedirs", "pg_load", "pg_env", "pg_demographics"} =>
              outFiles = EmptyMap
        /\ pc = "done" => stdout[Len(stdout)] = PgCompletionLine

C3_Witness ==
    /\ disk.templates = TemplateNames
    /\ pc = "done"
    /\ "core_metrics" \notin disk.readable
    /\ "detailed_stats" \in disk.readable
    /\ DOMAIN outFiles = {EvaluationPage}
    /\ stdout[Len(stdout)] = PgCompletionLine

(* C4: a missing template degrades silently: no error ends the run, and    *)
(* the other page is still written when its table loaded and its template  *)
(* exists.  (Stated as claimed; the script does not behave so.)            *)
C4_MissingTemplateSilent ==
    /\ raised = "none"
    /\ pc # "terminated"
    /\ (pc \notin {"pg_makedirs", "pg_load", "pg_env", "pg_demographics", "pg_evaluation"}
        /\ "detailed_stats" \in DOMAIN dataframes
        /\ "evaluation_template.html" \in disk.templates)
          => EvaluationPage \in DOMAIN outFiles

(* ---------------------------------------------------------------------- *)
\* every file main() writes
ExpectedFiles ==
    {Path(n) : n \in {"evaluation_per_question.csv", "evaluation_distribution.csv",
                      "evaluation_by_college.csv", "performance_overall.csv",
                      "performance_by_college.csv", "performance_by_course.csv",
                      "demographics_college.csv", "demographics_campus.csv",
                      "demographics_course_size.csv", "course_name_keywords.csv",
                      "summary_report.txt"}}
    \cup {Path(pre \o c \o ".csv") :
            pre \in {"average_scores_", "top_10_colleges_", "top_10_courses_"},
            c \in SeqToSet(survey_cols)}

\* the pages the generator writes for the tables it loaded
ExpectedPages ==
    {DemographicsPage : k \in {"core_metrics"} \cap DOMAIN dataframes}
    \cup {EvaluationPage : k \in {"detailed_stats"} \cap DOMAIN dataframes}

MainOutputStarted == output_dir \in dirs \/ \E f \in DOMAIN outFiles : f \in ExpectedFiles

PageFileWritten == \E f \in DOMAIN outFiles : f \in {DemographicsPage, EvaluationPage}

PagesLoading == pc \in {"pg_makedirs", "pg_load"}

Completed == CompletionMessage \in LogSet \/ PgCompletionLine \in OutSet

(* C7 as claimed: in each script nothing is created or written on the      *)
(* output side before the validation/loading of the inputs has finished.   *)
C7_NoOutputBeforeInputsLoaded ==
    /\ MainOutputStarted => pc \notin ConstructorPcs
    /\ (output_pages_dir \in dirs \/ PageFileWritten) => ~PagesLoading

(* C7 amended: the Metrics Calculator creates its output directory and     *)
(* writes only after the constructor has validated the input; the Page     *)
(* Generator creates its output directory first, before any metadata file  *)
(* is loaded, but writes no page before the loading loop has finished; in  *)
(* both scripts the completion message comes after every output of the     *)
(* run, and nothing is written after it.                                   *)
C7_OutputsInOrder ==
    /\ MainOutputStarted => (pc \notin ConstructorPcs /\ pc # "terminated")
    /\ pc = "pg_load" => output_pages_dir \in dirs
    /\ PageFileWritten => ~PagesLoading
    /\ CompletionMessage \in LogSet =>
          (DOMAIN outFiles = ExpectedFiles /\ output_dir \in dirs /\ pc = "done")
    /\ PgCompletionLine \in OutSet =>
          (DOMAIN outFiles = ExpectedPages /\ output_pages_dir \in dirs /\ pc = "done")
    /\ (pc = "done" /\ Completed) => ~ENABLED Next

C7_Witness ==
    /\ pc = "pg_load"
    /\ loop_i = 1
    /\ output_pages_dir \in dirs
    /\ dataframes = EmptyMap

(* ---------------------------------------------------------------------- *)
\* the frame a fresh calculator holds for the input file
Fresh == Construct(file)

SurveyCells(row) == [i \in 1..Len(survey_cols) |-> row[survey_cols[i]]]

ReadOnlyOps == {"additional", "evaluation", "demographic"}

(* C5 as claimed: once constructed, the frame never changes, whatever      *)
(* operations are called.                                                  *)
C5_FrameImmutable == pc = "constructed" => df = Fresh

C5_InputColumnsKept ==
    pc = "constructed" =>
        \A d0 \in {Fresh} :
        /\ NRows(df) = NRows(d0)
        /\ df.columns \ {"gpa_equiv"} = d0.columns \ {"gpa_equiv"}
        /\ \A i \in 1..NRows(d0) : \A c \in d0.columns \ {"gpa_equiv"} :
              df.rows[i][c] = d0.rows[i][c]
        /\ \A i \in 1..NRows(df) : DOMAIN df.rows[i] = df.columns
        /\ lastOp = "none" => df = d0

C5_ReadOnlyStep == lastOp' \in ReadOnlyOps => df' = df

C5_MutatingStep == lastOp' \in {"performance", "summary"} => "gpa_equiv" \in df'.columns

(* C5 amended: no call adds, removes or changes any column or cell other   *)
(* than gpa_equiv; calculate_additional_metrics,                           *)
(* calculate_evaluation_metrics and calculate_demographic_metrics leave    *)
(* the frame as it is, while calculate_performance_metrics and             *)
(* generate_summary_report (which calls it) assign the column gpa_equiv,   *)
(* adding it or overwriting a column of that name.                         *)
C5_OnlyGpaEquivAssigned ==
    /\ []C5_InputColumnsKept
    /\ [][C5_ReadOnlyStep /\ C5_MutatingStep]_vars

C5_Witness ==
    /\ pc = "constructed"
    /\ lastOp = "additional"
    /\ "gpa_equiv" \notin Fresh.columns
    /\ "gpa_equiv" \in df.columns
    /\ NRows(df) = 2

(* ---------------------------------------------------------------------- *)
\* the input file with a Department column added, one department per row
WithDepartment ==
    {[exists |-> TRUE,
      cols |-> file.cols \cup {"Department"},
      rows |-> [i \in 1..Len(file.rows) |->
                  [c \in file.cols \cup {"Department"} |->
                      IF c = "Department" THEN dep[i] ELSE file.rows[i][c]]]] :
        dep \in [1..Len(file.rows) -> {"Physics", "Math"}]}

DepartmentWarning == LogRec("WARNING", "Optional column missing", {"Department"})

\* the additional metrics without their by_department entries
SansDepartment(m) ==
    [average_scores |->
        [c \in DOMAIN m.average_scores |->
            [by_college |-> m.average_scores[c].by_college,
             by_humanities_sciences |-> m.average_scores[c].by_humanities_sciences]],
     top_10_colleges |-> m.top_10_colleges,
     top_10_courses |-> m.top_10_courses,
     course_name_keywords |-> m.course_name_keywords]

(* C6: with every required column present and Department absent the run    *)
(* logs a warning and completes without raising; by_department is empty    *)
(* for each of the seven questions, and every other aggregate is what it   *)
(* is for the same table with a Department column.                         *)
C6_OptionalColumnOmitted ==
    (file.exists /\ MissingRequired = {} /\ "Department" \notin file.cols) =>
        /\ raised = "none"
        /\ pc \in MainRunningPcs \cup {"done"}
        /\ pc \notin {"start", "read_csv", "check_required", "check_optional"} =>
              (DepartmentWarning \in LogSet /\ "Department" \notin df.columns)
        /\ pc = "done" => (CompletionMessage \in LogSet /\ DOMAIN outFiles = ExpectedFiles)
        /\ pc = "save_evaluation" =>
              \A c \in SeqToSet(survey_cols) :
                  locals["additional_metrics"].average_scores[c].by_department = EmptyDict
        /\ \A d \in {Construct(g) : g \in WithDepartment} :
              /\ pc = "calc_performance" =>
                    locals["evaluation_metrics"] = calculate_evaluation_metrics(d)
              /\ pc = "calc_demographic" =>
                    locals["performance_metrics"] = calculate_performance_metrics(d).ret
              /\ pc = "calc_additional" =>
                    locals["demographic_metrics"] = calculate_demographic_metrics(d)
              /\ pc = "save_evaluation" =>
                    SansDepartment(locals["additional_metrics"])
                        = SansDepartment(calculate_additional_metrics(d))
              /\ pc = "log_completion" =>
                    outFiles[Path("summary_report.txt")] = generate_summary_report(d).ret

C6_Witness ==
    /\ file.exists
    /\ MissingRequired = {}
    /\ "Department" \notin file.cols
    /\ pc = "done"
    /\ Len(file.rows) = 2
    /\ Cardinality(WithDepartment) > 0
    /\ DepartmentWarning \in LogSet
    /\ Cardinality(DOMAIN locals["additional_metrics"].average_scores["Survey1"].by_college) = 2

(* ---------------------------------------------------------------------- *)
InScale(x) == RGeq(x, Num(0)) /\ RLeq(x, Num(5))

GpaInRange(x) == RGeq(x, Num(0)) /\ RLeq(x, Rat(9, 2))

\* the non-missing survey scores of row i of frame d
Scores(d, i) == NotNa(SurveyCells(d.rows[i]))

AllInScale(d, rowset) ==
    \A i \in rowset : \A j \in 1..Len(Scores(d, i)) : InScale(Scores(d, i)[j])

RowsOf(d, k, g) == {i \in 1..NRows(d) : d.rows[i][k] = g}

GpaAssigned == pc = "constructed" /\ lastOp \in {"performance", "summary"}

\* gpa is 9/10 of the mean of the scores
LinearRescale(scores, gpa) ==
    IF Len(scores) = 0 THEN IsNaN(gpa)
    ELSE RMul(gpa, Num(10 * Len(scores))) = RMul(Num(9), Sum(scores))

(* C8 as claimed: gpa_equiv is the mean of the record's non-missing scores *)
(* times 4.5/5 and lies in [0, 4.5] for every record the constructor       *)
(* accepts that has a score, and so do the overall and per-group means.    *)
C8_GpaWithinScale ==
    \A d0 \in {Fresh} :
    /\ GpaAssigned =>
          \A i \in 1..NRows(df) :
              /\ LinearRescale(Scores(d0, i), df.rows[i]["gpa_equiv"])
              /\ Len(Scores(d0, i)) > 0 => GpaInRange(df.rows[i]["gpa_equiv"])
    /\ (pc = "constructed" /\ lastOp = "performance") =>
          /\ IsNaN(ret.overall.mean_gpa) \/ GpaInRange(ret.overall.mean_gpa)
          /\ \A g \in DOMAIN ret.college_performance.mean :
                \/ IsNaN(ret.college_performance.mean[g])
                \/ GpaInRange(ret.college_performance.mean[g])
          /\ \A g \in DOMAIN ret.course_performance.mean :
                \/ IsNaN(ret.course_performance.mean[g])
                \/ GpaInRange(ret.course_performance.mean[g])

MeanInRange(d, m, rowset) ==
    IF \A i \in rowset : Len(Scores(d, i)) = 0 THEN IsNaN(m)
    ELSE (~IsNaN(m) /\ (AllInScale(d, rowset) => GpaInRange(m)))

(* C8 amended: gpa_equiv is the mean of the record's non-missing scores    *)
(* times 4.5/5 (missing when the record has no score); it lies in [0, 4.5] *)
(* when the record's scores lie in [0, 5], which the constructor does not  *)
(* check; the overall and per-group means lie in [0, 4.5] when every score *)
(* they cover lies in [0, 5] and are missing when they cover no score.     *)
C8_GpaLinearRescale ==
    \A d0 \in {Fresh} :
    /\ GpaAssigned =>
          \A i \in 1..NRows(df) :
              /\ LinearRescale(Scores(d0, i), df.rows[i]["gpa_equiv"])
              /\ (Len(Scores(d0, i)) > 0 /\ AllInScale(d0, {i}))
                    => GpaInRange(df.rows[i]["gpa_equiv"])
    /\ (pc = "constructed" /\ lastOp = "performance") =>
          /\ MeanInRange(d0, ret.overall.mean_gpa, 1..NRows(d0))
          /\ DOMAIN ret.college_performance.mean = GroupKeys(d0, "College")
          /\ DOMAIN ret.course_performance.mean = GroupKeys(d0, "GroupCode")
          /\ \A g \in DOMAIN ret.college_performance.mean :
                MeanInRange(d0, ret.college_performance.mean[g], RowsOf(d0, "College", g))
          /\ \A g \in DOMAIN ret.course_performance.mean :
                MeanInRange(d0, ret.course_performance.mean[g], RowsOf(d0, "GroupCode", g))

C8_Witness ==
    /\ pc = "constructed"
    /\ lastOp = "performance"
    /\ NRows(df) = 2
    /\ Len(Scores(Fresh, 1)) = 5
    /\ AllInScale(Fresh, {1})
    /\ df.rows[1]["gpa_equiv"] = Rat(243, 100)
    /\ ~AllInScale(Fresh, {2})
    /\ ~GpaInRange(df.rows[2]["gpa_equiv"])

(* ---------------------------------------------------------------------- *)
SummaryFile == Path("summary_report.txt")

(* C9: what an operation returns depends on the input file alone: after    *)
(* any earlier calls it returns what it returns when called first on a     *)
(* fresh calculator; so the figures of the summary report, recomputed      *)
(* inside generate_summary_report, are those main() computed and saved.    *)
C9_ResultsIgnoreHistory ==
    /\ (pc = "constructed" /\ lastOp # "none") =>
          \A d \in {Fresh} :
              /\ lastOp = "additional" => ret = calculate_additional_metrics(d)
              /\ lastOp = "evaluation" => ret = calculate_evaluation_metrics(d)
              /\ lastOp = "performance" => ret = calculate_performance_metrics(d).ret
              /\ lastOp = "demographic" => ret = calculate_demographic_metrics(d)
              /\ lastOp = "summary" => ret = generate_summary_report(d).ret
    /\ pc = "save_evaluation" =>
          \A d \in {Fresh} :
              /\ locals["evaluation_metrics"] = calculate_evaluation_metrics(d)
              /\ locals["performance_metrics"] = calculate_performance_metrics(d).ret
              /\ locals["demographic_metrics"] = calculate_demographic_metrics(d)
              /\ locals["additional_metrics"] = calculate_additional_metrics(d)
    /\ pc = "log_completion" =>
          /\ outFiles[SummaryFile].average_gpa
                = Round2(outFiles[Path("performance_overall.csv")].data.mean_gpa)
          /\ outFiles[SummaryFile].overall_satisfaction
                = Round2(locals["evaluation_metrics"].overall.mean)
          /\ outFiles[SummaryFile].college_lines
                = outFiles[Path("demographics_college.csv")].data.section_count

C9_Witness ==
    /\ pc = "constructed"
    /\ lastOp = "evaluation"
    /\ "gpa_equiv" \in df.columns
    /\ df # Fresh
    /\ NRows(df) = 2
    /\ ~IsNaN(ret.overall.mean)

(* ---------------------------------------------------------------------- *)
\* the survey cells of frame d, as <<row, column>>
SurveyCellsOf(d) == {<<i, c>> : i \in 1..NRows(d), c \in SeqToSet(survey_cols)}

NonMissing(d) == {ic \in SurveyCellsOf(d) : ~IsNaN(d.rows[ic[1]][ic[2]])}

BucketsOf(x) ==
    {b \in {"high", "medium", "low"} :
        \/ (b = "high" /\ IsHigh(x))
        \/ (b = "medium" /\ IsMedium(x))
        \/ (b = "low" /\ IsLow(x))}

(* C10: the buckets high (>= 4.5), medium (3 <= score < 4.5) and low (< 3) *)
(* are disjoint, hold every non-missing survey cell once and no missing    *)
(* cell, so high + medium + low is the percentage of non-missing survey    *)
(* cells: 100 when no cell of the table is missing, less otherwise (with   *)
(* no row at all both are undefined).                                      *)
C10_BucketsPartitionScores ==
    (pc = "constructed" /\ lastOp = "evaluation") =>
        \A d0 \in {Fresh} : \A cells \in {SurveyCellsOf(d0)} : \A present \in {NonMissing(d0)} :
        \A total \in {RAdd(RAdd(ret.score_distribution.high, ret.score_distribution.medium),
                           ret.score_distribution.low)} :
           /\ \A ic \in cells :
                 Cardinality(BucketsOf(d0.rows[ic[1]][ic[2]]))
                     = IF ic \in present THEN 1 ELSE 0
           /\ total = Rat(100 * Cardinality(present), Cardinality(cells))
           /\ cells # {} =>
                 /\ (total = Num(100)) = (present = cells)
                 /\ present # cells => RLess(total, Num(100))
                 /\ RGeq(ret.score_distribution.high, Num(0))
                 /\ RGeq(ret.score_distribution.medium, Num(0))
                 /\ RGeq(ret.score_distribution.low, Num(0))

C10_Witness ==
    /\ pc = "constructed"
    /\ lastOp = "evaluation"
    /\ NRows(Fresh) = 2
    /\ Cardinality(NonMissing(Fresh)) = 12
    /\ ret.score_distribution.high = Rat(400, 7)
    /\ ret.score_distribution.medium = Rat(100, 7)
    /\ ret.score_distribution.low = Rat(100, 7)

====
